---- MODULE Spec2Model ----
(***************************************************************************)
(* Habit tracker (apps/habit-tracker/app.js): the habits and completions   *)
(* tables, the mutation handlers (add, edit, delete, check-in, undo), the  *)
(* home page's streak and statistics computation, the read endpoints       *)
(* (history, calendar, export, reminders), the users table with the login  *)
(* callback, and the handlers' answers when a query fails.                 *)
(*                                                                         *)
(* Time.  A calendar date is a day number; day 0 is the date Epoch.  A     *)
(* JavaScript Date is an instant, counted in hours since day 0, 00:00 UTC. *)
(* The server's local time is UTC + tz hours; tz is fixed for a run of the *)
(* server.                                                                 *)
(*                                                                         *)
(* Strings.  A habit name is lead blanks, then a block of len copies of    *)
(* the character ch, then trail blanks.  A query parameter is its leading  *)
(* digits and the rest.                                                    *)
(***************************************************************************)
EXTENDS Bags, FiniteSets, Integers, Sequences, TLC

VARIABLES tz, today, habits, completions, nextHabitId, nextCompletionId,
          inflight, resp, users, nextUserId

vars == <<tz, today, habits, completions, nextHabitId, nextCompletionId,
          inflight, resp, users, nextUserId>>

----------------------------------------------------------------------------
(* Bounds of the model *)

NumUsers == 2
MaxHabitId == 1
MaxCompletionId == 2
MaxDay == 1
MaxInFlight == 2

(* Bounds of the specifications over stored data (SpecView, SpecQuery) *)
ViewHabits == 3
ViewMaxRows == 3

----------------------------------------------------------------------------
(* Program constants *)

MaxNameLength == 100
HoursPerDay == 24
WeekDays == 7

----------------------------------------------------------------------------
(* Input domains *)

Users == 1..NumUsers
HabitIds == 1..MaxHabitId
ViewToday == WeekDays + 1
TZOffsets == {-5, 0, 3}
NULL == "NULL"
NoDate == 0 - 1

Chars == {"a", "b"}
(* "", " ", "a", " b ", a name of 100 characters, one of 100 characters
   between two blanks and one of 101 characters *)
RawNames ==
    { [lead |-> 0, ch |-> "a", len |-> 0, trail |-> 0],
      [lead |-> 1, ch |-> "a", len |-> 0, trail |-> 0],
      [lead |-> 0, ch |-> "a", len |-> 1, trail |-> 0],
      [lead |-> 1, ch |-> "b", len |-> 1, trail |-> 1],
      [lead |-> 0, ch |-> "a", len |-> MaxNameLength, trail |-> 0],
      [lead |-> 1, ch |-> "b", len |-> MaxNameLength, trail |-> 1],
      [lead |-> 0, ch |-> "a", len |-> MaxNameLength + 1, trail |-> 0] }
ReminderInputs == {"", "09:00", "25:61"}
ValidTimes == {"09:00"}
SortKeys == {"newest", "oldest", "streak", "alphabetical"}

----------------------------------------------------------------------------
(* Strings *)

StrLen(s) == s.lead + s.len + s.trail

Trim(s) ==
    IF s.len = 0 THEN [lead |-> 0, ch |-> "a", len |-> 0, trail |-> 0]
    ELSE [s EXCEPT !.lead = 0, !.trail = 0]

(* !habitName || habitName.trim().length === 0 *)
NameMissing(s) == StrLen(s) = 0 \/ StrLen(Trim(s)) = 0

(* variant: no limit on the length *)
AnyLength(s) == FALSE

(* habitName.length > 100 *)
NameTooLong(s) == StrLen(s) > MaxNameLength

(* reminderTime || null *)
ReminderParam(r) == IF r = "" THEN NULL ELSE r

(* the TIME column accepts NULL or a time of day *)
TimeAccepted(p) == p = NULL \/ p \in ValidTimes

----------------------------------------------------------------------------
(* Dates *)

(* getLocalDate(): the local calendar date of the server clock *)
getLocalDate == today

(* a DATE column read by the driver: local midnight of that date *)
DateColumn(d) == HoursPerDay * d - tz

(* new Date("YYYY-MM-DD"): a date-only string is UTC midnight *)
ParseDateString(d) == HoursPerDay * d

(* date.setHours(0, 0, 0, 0): midnight of the instant's local date *)
SetHoursZero(t) == HoursPerDay * ((t + tz) \div HoursPerDay) - tz

(* date.setDate(date.getDate() - n): n local days earlier, same local time *)
SetDateBack(t, n) == t - HoursPerDay * n

----------------------------------------------------------------------------
(* Responses *)

NoResp == [op |-> "none", user |-> 0, id |-> 0, today |-> 0, status |-> 0,
           body |-> ""]

Response(op, u, id, d, status, body) ==
    [op |-> op, user |-> u, id |-> id, today |-> d, status |-> status,
     body |-> body]

----------------------------------------------------------------------------
(* Store: statements on the habits and completions tables *)

(* variant: the query without its user_id condition *)
AnyOwner(id, u) == { h \in habits : h.id = id }

(* SELECT id FROM habits WHERE id = $1 AND user_id = $2 *)
HabitCheck(id, u) == { h \in habits : h.id = id /\ h.user_id = u }

(* the foreign key completions.habit_id REFERENCES habits(id) *)
HabitExists(id) == \E h \in habits : h.id = id

(* UNIQUE(habit_id, completed_date): the rows an insert conflicts with *)
Conflicting(id, d) ==
    { c \in completions : c.habit_id = id /\ c.completed_date = d }

(* variant: the table without its UNIQUE constraint *)
NoUniqueConstraint(id, d) ==
    [rows |-> completions \cup
        {[id |-> nextCompletionId, habit_id |-> id, completed_date |-> d]},
     err |-> FALSE]

(* variant: the insert without ON CONFLICT DO NOTHING *)
NoOnConflictClause(id, d) ==
    IF Conflicting(id, d) # {} THEN [rows |-> completions, err |-> TRUE]
    ELSE [rows |-> completions \cup
            {[id |-> nextCompletionId, habit_id |-> id, completed_date |-> d]},
          err |-> FALSE]

(* INSERT INTO completions ... ON CONFLICT DO NOTHING: the table after the
   statement, and whether the statement raised an error *)
InsertCompletion(id, d) ==
    IF Conflicting(id, d) # {} THEN [rows |-> completions, err |-> FALSE]
    ELSE [rows |-> completions \cup
            {[id |-> nextCompletionId, habit_id |-> id, completed_date |-> d]},
          err |-> FALSE]

(* variant: DELETE FROM completions WHERE habit_id = $1 *)
DeleteEveryDate(id, d) == { c \in completions : c.habit_id # id }

(* variant: DELETE FROM completions WHERE id = $1 *)
DeleteByRowId(id, d) == { c \in completions : c.id # id }

(* DELETE FROM completions WHERE habit_id = $1 AND completed_date = $2 *)
DeleteCompletion(id, d) ==
    { c \in completions : ~(c.habit_id = id /\ c.completed_date = d) }

(* variant: the foreign key without ON DELETE CASCADE *)
NoCascade(gone) == completions

(* ON DELETE CASCADE: the completions left when the habits in gone go *)
CascadeDelete(gone) ==
    { c \in completions : \A h \in gone : c.habit_id # h.id }

(* a row of users: id SERIAL PRIMARY KEY, google_id TEXT UNIQUE NOT NULL *)
UserRow(id, g) == [id |-> id, google_id |-> g]

(* SELECT * FROM users WHERE google_id = $1 *)
UsersByGoogleId(g) == { u \in users : u.google_id = g }

(* the users table when every user of the sessions has logged in before *)
RegisteredUsers == { UserRow(u, u) : u \in Users }

----------------------------------------------------------------------------
(* Handlers *)

(* POST /add *)
Add(u, habitName, reminderTime) ==
    /\ UNCHANGED <<users, nextUserId>>
    /\ UNCHANGED <<tz, today, completions, nextCompletionId, inflight>>
    /\ IF NameMissing(habitName)
       THEN /\ resp' = Response("add", u, 0, today, 400,
                                "Habit name is required")
            /\ UNCHANGED <<habits, nextHabitId>>
       ELSE IF NameTooLong(habitName)
       THEN /\ resp' = Response("add", u, 0, today, 400,
                                "Habit name too long (max 100 characters)")
            /\ UNCHANGED <<habits, nextHabitId>>
       ELSE IF ~TimeAccepted(ReminderParam(reminderTime))
       THEN /\ resp' = Response("add", u, 0, today, 500, "Insert Error")
            /\ UNCHANGED <<habits, nextHabitId>>
       ELSE /\ nextHabitId <= MaxHabitId
            /\ habits' = habits \cup
                 {[id |-> nextHabitId, user_id |-> u,
                   name |-> Trim(habitName),
                   reminder_time |-> ReminderParam(reminderTime),
                   created_at |-> nextHabitId]}
            /\ nextHabitId' = nextHabitId + 1
            /\ resp' = Response("add", u, nextHabitId, today, 302, "/")

(* POST /checkin/:id, up to the ownership query *)
CheckinGuard(u, id) ==
    /\ UNCHANGED <<users, nextUserId>>
    /\ UNCHANGED <<tz, today, habits, completions, nextHabitId,
                   nextCompletionId>>
    /\ IF HabitCheck(id, u) = {}
       THEN /\ resp' = Response("checkin", u, id, getLocalDate, 403,
                                "Unauthorized")
            /\ UNCHANGED inflight
       ELSE /\ BagCardinality(inflight) < MaxInFlight
            /\ inflight' = inflight (+)
                 SetToBag({[op |-> "checkin", user |-> u, id |-> id,
                            today |-> getLocalDate]})
            /\ resp' = NoResp

(* POST /checkin/:id, the insert *)
CheckinInsert(r) ==
    /\ UNCHANGED <<users, nextUserId>>
    /\ BagIn(r, inflight)
    /\ r.op = "checkin"
    /\ nextCompletionId <= MaxCompletionId
    /\ inflight' = inflight (-) SetToBag({r})
    /\ nextCompletionId' = nextCompletionId + 1
    /\ UNCHANGED <<tz, today, habits, nextHabitId>>
    /\ IF ~HabitExists(r.id)
       THEN /\ resp' = Response("checkin", r.user, r.id, r.today, 500,
                                "Check-in Error")
            /\ UNCHANGED completions
       ELSE LET out == InsertCompletion(r.id, r.today) IN
            IF out.err
            THEN /\ resp' = Response("checkin", r.user, r.id, r.today, 500,
                                     "Check-in Error")
                 /\ UNCHANGED completions
            ELSE /\ completions' = out.rows
                 /\ resp' = Response("checkin", r.user, r.id, r.today, 302,
                                     "/")

(* POST /delete/:id *)
Delete(u, id) ==
    /\ UNCHANGED <<users, nextUserId>>
    /\ UNCHANGED <<tz, today, nextHabitId, nextCompletionId, inflight>>
    /\ LET gone == HabitCheck(id, u) IN
       IF gone = {}
       THEN /\ resp' = Response("delete", u, id, today, 403, "Unauthorized")
            /\ UNCHANGED <<habits, completions>>
       ELSE /\ habits' = habits \ gone
            /\ completions' = CascadeDelete(gone)
            /\ resp' = Response("delete", u, id, today, 302, "/")

(* POST /undo/:id, up to the ownership query *)
UndoGuard(u, id) ==
    /\ UNCHANGED <<users, nextUserId>>
    /\ UNCHANGED <<tz, today, habits, completions, nextHabitId,
                   nextCompletionId>>
    /\ IF HabitCheck(id, u) = {}
       THEN /\ resp' = Response("undo", u, id, getLocalDate, 403,
                                "Unauthorized")
            /\ UNCHANGED inflight
       ELSE /\ BagCardinality(inflight) < MaxInFlight
            /\ inflight' = inflight (+)
                 SetToBag({[op |-> "undo", user |-> u, id |-> id,
                            today |-> getLocalDate]})
            /\ resp' = NoResp

(* POST /undo/:id, the delete *)
UndoDelete(r) ==
    /\ UNCHANGED <<users, nextUserId>>
    /\ BagIn(r, inflight)
    /\ r.op = "undo"
    /\ inflight' = inflight (-) SetToBag({r})
    /\ completions' = DeleteCompletion(r.id, r.today)
    /\ resp' = Response("undo", r.user, r.id, r.today, 302, "/")
    /\ UNCHANGED <<tz, today, habits, nextHabitId, nextCompletionId>>

(* POST /edit/:id *)
Edit(u, id, habitName, reminderTime) ==
    /\ UNCHANGED <<users, nextUserId>>
    /\ UNCHANGED <<tz, today, completions, nextHabitId, nextCompletionId,
                   inflight>>
    /\ IF NameMissing(habitName)
       THEN /\ resp' = Response("edit", u, id, today, 400,
                                "Habit name is required")
            /\ UNCHANGED habits
       ELSE IF NameTooLong(habitName)
       THEN /\ resp' = Response("edit", u, id, today, 400,
                                "Habit name too long (max 100 characters)")
            /\ UNCHANGED habits
       ELSE IF ~TimeAccepted(ReminderParam(reminderTime))
       THEN /\ resp' = Response("edit", u, id, today, 500, "Edit Error")
            /\ UNCHANGED habits
       ELSE LET hit == HabitCheck(id, u) IN
            IF hit = {}
            THEN /\ resp' = Response("edit", u, id, today, 403,
                                     "Unauthorized")
                 /\ UNCHANGED habits
            ELSE /\ habits' = (habits \ hit) \cup
                      { [h EXCEPT !.name = Trim(habitName),
                                  !.reminder_time =
                                      ReminderParam(reminderTime)] :
                        h \in hit }
                 /\ resp' = Response("edit", u, id, today, 302, "/")

(* the Google strategy's verify callback, up to its SELECT: a known user
   completes the login and the route redirects to the home page *)
LoginSelect(g) ==
    /\ UNCHANGED <<tz, today, habits, completions, nextHabitId,
                   nextCompletionId, users, nextUserId>>
    /\ IF UsersByGoogleId(g) # {}
       THEN /\ \E u \in UsersByGoogleId(g) :
                  resp' = Response("login", g, u.id, today, 302, "/")
            /\ UNCHANGED inflight
       ELSE /\ BagCardinality(inflight) < MaxInFlight
            /\ inflight' = inflight (+)
                 SetToBag({[op |-> "login", user |-> g, id |-> 0,
                            today |-> today]})
            /\ resp' = NoResp

(* the verify callback's INSERT INTO users ... RETURNING *: the sequence
   gives the id, the UNIQUE constraint on google_id refuses a second row
   and the catch block completes the login with the error *)
LoginInsert(r) ==
    /\ BagIn(r, inflight)
    /\ r.op = "login"
    /\ inflight' = inflight (-) SetToBag({r})
    /\ nextUserId' = nextUserId + 1
    /\ IF UsersByGoogleId(r.user) # {}
       THEN /\ resp' = Response("login", r.user, 0, r.today, 500,
                                "Internal Server Error")
            /\ UNCHANGED users
       ELSE /\ users' = users \cup {UserRow(nextUserId, r.user)}
            /\ resp' = Response("login", r.user, nextUserId, r.today, 302,
                                "/")
    /\ UNCHANGED <<tz, today, habits, completions, nextHabitId,
                   nextCompletionId>>

----------------------------------------------------------------------------
(* Sequences *)

(* the positions 1..n in ascending order of key, equal keys in their
   original order *)
RECURSIVE StableOrder(_, _)
StableOrder(key, n) ==
    IF n = 0 THEN <<>>
    ELSE LET prev == StableOrder(key, n - 1)
             pos  == Cardinality({ j \in 1..Len(prev) :
                                     key[prev[j]] <= key[n] })
         IN  SubSeq(prev, 1, pos) \o <<n>> \o SubSeq(prev, pos + 1, Len(prev))

SortByKey(s, key) ==
    LET ord == StableOrder(key, Len(s)) IN [i \in 1..Len(s) |-> s[ord[i]]]

(* the rows of a table in heap order: ascending serial id *)
RECURSIVE HeapOrder(_)
HeapOrder(rows) ==
    IF rows = {} THEN <<>>
    ELSE LET first == CHOOSE r \in rows : \A q \in rows : r.id <= q.id
         IN  <<first>> \o HeapOrder(rows \ {first})

RECURSIVE Concat(_)
Concat(ss) == IF ss = <<>> THEN <<>> ELSE Head(ss) \o Concat(Tail(ss))

RECURSIVE Sum(_)
Sum(s) == IF s = <<>> THEN 0 ELSE Head(s) + Sum(Tail(s))

----------------------------------------------------------------------------
(* GET /: the home page *)

(* created_at as a number: timestamps in the order of the inserts *)
CreatedKey(c) == c

(* name.localeCompare: names as numbers in collation order *)
NameKey(n) ==
    (IF n.ch = "a" THEN 0 ELSE MaxNameLength + 2) + n.len

(* completed_date DESC: NULL sorts before every date *)
DateDescKey(d) == IF d = NoDate THEN 0 - (MaxDay + ViewToday + 2) ELSE 0 - d

(* variant: true for a completion of any date *)
CheckedAnyDay(cd, d) == cd # NoDate

(* CASE WHEN c.completed_date = $1 THEN true ELSE false END *)
CheckedToday(cd, d) == cd # NoDate /\ cd = d

(* FROM habits h LEFT JOIN completions c ON h.id = c.habit_id
   WHERE h.user_id = $2, unordered, on the tables hs and cs *)
HomeJoinOn(hs, cs, u, d) ==
    LET mine == HeapOrder({ h \in hs : h.user_id = u })
        Row(h, cd) ==
            [id |-> h.id, name |-> h.name, created_at |-> h.created_at,
             reminder_time |-> h.reminder_time, completed_date |-> cd,
             checked_today |-> CheckedToday(cd, d)]
        RowsOf(h) ==
            LET done == HeapOrder({ c \in cs : c.habit_id = h.id })
            IN  IF done = <<>> THEN << Row(h, NoDate) >>
                ELSE [i \in 1..Len(done) |-> Row(h, done[i].completed_date)]
    IN  Concat([i \in 1..Len(mine) |-> RowsOf(mine[i])])

HomeJoin(u, d) == HomeJoinOn(habits, completions, u, d)

(* variant: the query without its ORDER BY *)
Unordered(rows) == rows

(* ORDER BY h.created_at DESC, c.completed_date DESC *)
HomeOrderBy(rows) ==
    LET byDate == SortByKey(rows,
                    [i \in 1..Len(rows) |-> DateDescKey(rows[i].completed_date)])
    IN  SortByKey(byDate,
                  [i \in 1..Len(byDate) |-> 0 - CreatedKey(byDate[i].created_at)])

(* the habitsMap loop: one entry per habit, in order of first appearance *)
RECURSIVE GroupRows(_, _)
GroupRows(rows, acc) ==
    IF rows = <<>> THEN acc
    ELSE LET row == Head(rows)
             known == \E i \in 1..Len(acc) : acc[i].id = row.id
             acc1 == IF known THEN acc
                     ELSE Append(acc,
                            [id |-> row.id, name |-> row.name,
                             created_at |-> row.created_at,
                             reminderTime |-> row.reminder_time,
                             checkedInToday |-> FALSE, streak |-> 0,
                             completions |-> <<>>, totalCompletions |-> 0])
             Upd(hb) ==
                 IF hb.id # row.id THEN hb
                 ELSE [hb EXCEPT
                         !.checkedInToday = hb.checkedInToday \/ row.checked_today,
                         !.completions =
                             IF row.completed_date # NoDate
                             THEN Append(hb.completions, row.completed_date)
                             ELSE hb.completions,
                         !.totalCompletions =
                             IF row.completed_date # NoDate
                             THEN hb.totalCompletions + 1
                             ELSE hb.totalCompletions]
         IN  GroupRows(Tail(rows), [i \in 1..Len(acc1) |-> Upd(acc1[i])])

(* the streak loop from index i (0-based) with the count so far *)
RECURSIVE StreakLoop(_, _, _, _)
StreakLoop(cs, todayDate, i, streak) ==
    IF i >= Len(cs) THEN streak
    ELSE LET completedDate == SetHoursZero(DateColumn(cs[i + 1]))
             expectedDate  == SetDateBack(todayDate, i)
         IN  IF completedDate = expectedDate
             THEN StreakLoop(cs, todayDate, i + 1, streak + 1)
             ELSE streak

(* variant: the count starting at 1 *)
StreakFromOne(cs, d) ==
    StreakLoop(cs, SetHoursZero(ParseDateString(d)), 0, 1)

(* let streak = 0; todayDate = new Date(today) at local midnight *)
Streak(cs, d) ==
    StreakLoop(cs, SetHoursZero(ParseDateString(d)), 0, 0)

(* the switch on sortBy; Array.prototype.sort is stable *)
ApplySort(hs, sortBy) ==
    CASE sortBy = "oldest" ->
           SortByKey(hs, [i \in 1..Len(hs) |-> CreatedKey(hs[i].created_at)])
      [] sortBy = "streak" ->
           SortByKey(hs, [i \in 1..Len(hs) |-> 0 - hs[i].streak])
      [] sortBy = "alphabetical" ->
           SortByKey(hs, [i \in 1..Len(hs) |-> NameKey(hs[i].name)])
      [] OTHER ->
           SortByKey(hs, [i \in 1..Len(hs) |-> 0 - CreatedKey(hs[i].created_at)])

(* variant: the percentage rounded down *)
FloorPercent(x, n) == (100 * x) \div n

(* Math.round(x / n * 100) for n > 0 *)
RoundPercent(x, n) == (200 * x + n) \div (2 * n)

(* completions.filter(d => new Date(d) >= weekAgo).length *)
WeekCount(cs, d) ==
    LET weekAgo == SetDateBack(ParseDateString(d), WeekDays)
        InWeek(c) == DateColumn(c) >= weekAgo
    IN  Len(SelectSeq(cs, InWeek))

Stats(hs, d) ==
    LET done == Len(SelectSeq(hs, LAMBDA h : h.checkedInToday)) IN
    [totalHabits |-> Len(hs),
     completedToday |-> done,
     totalCompletionsThisWeek |->
         Sum([i \in 1..Len(hs) |-> WeekCount(hs[i].completions, d)]),
     totalAllTime |-> Sum([i \in 1..Len(hs) |-> hs[i].totalCompletions]),
     completionRate |-> IF Len(hs) > 0 THEN RoundPercent(done, Len(hs)) ELSE 0]

(* the page built from the rows the query returned *)
HomeView(u, d, sortBy, rows) ==
    LET grouped == GroupRows(rows, <<>>)
        enriched == [i \in 1..Len(grouped) |->
                       [grouped[i] EXCEPT
                          !.streak = Streak(grouped[i].completions, d)]]
        sorted == ApplySort(enriched, sortBy)
    IN  [habits |-> sorted, stats |-> Stats(sorted, d), sortBy |-> sortBy,
         user |-> u]

GetHome(u, sortBy) ==
    /\ UNCHANGED <<users, nextUserId>>
    /\ resp' = Response("home", u, 0, getLocalDate, 200,
                        HomeView(u, getLocalDate, sortBy,
                                 HomeOrderBy(HomeJoin(u, getLocalDate))))
    /\ UNCHANGED <<tz, today, habits, completions, nextHabitId,
                   nextCompletionId, inflight>>

(* the server clock passes midnight *)
DayAdvance ==
    /\ UNCHANGED <<users, nextUserId>>
    /\ today < MaxDay
    /\ today' = today + 1
    /\ resp' = NoResp
    /\ UNCHANGED <<tz, habits, completions, nextHabitId, nextCompletionId,
                   inflight>>

----------------------------------------------------------------------------
(* Calendar dates *)

(* the calendar date of day number 0 *)
Epoch == [y |-> 2024, m |-> 2, d |-> 22]

LeapYear(y) == (y % 4 = 0 /\ y % 100 # 0) \/ y % 400 = 0

DaysInMonth(y, m) ==
    IF m = 2 THEN (IF LeapYear(y) THEN 29 ELSE 28)
    ELSE IF m \in {4, 6, 9, 11} THEN 30 ELSE 31

NextDate(t) ==
    IF t.d < DaysInMonth(t.y, t.m) THEN [t EXCEPT !.d = t.d + 1]
    ELSE IF t.m < 12 THEN [y |-> t.y, m |-> t.m + 1, d |-> 1]
    ELSE [y |-> t.y + 1, m |-> 1, d |-> 1]

(* completed_date::text: the year, month and day of a DATE value *)
RECURSIVE DateOf(_)
DateOf(n) == IF n = 0 THEN Epoch ELSE NextDate(DateOf(n - 1))

(* the order of DATE values *)
DateNum(t) == (t.y * 12 + (t.m - 1)) * 31 + t.d

(* a 'YYYY-MM-DD' parameter is a DATE only if the month has that day *)
ValidDate(t) == t.m \in 1..12 /\ t.d \in 1..DaysInMonth(t.y, t.m)

(* the local calendar date of an instant: Date.prototype.toString *)
LocalDateOf(t) == (t + tz) \div HoursPerDay

----------------------------------------------------------------------------
(* GET /api/calendar *)

(* A query parameter is its leading decimal digits, as a number (NaN when
   it has none), and the characters that follow them. *)
NaN == 0 - 1

QueryString(digits, rest) == [digits |-> digits, rest |-> rest]

(* absent, "2023", "2024", "abc" *)
YearInputs ==
    { QueryString(NaN, ""), QueryString(2023, ""), QueryString(2024, ""),
      QueryString(NaN, "x") }

(* absent, "0", "2", "3", "13", "abc", "2x" *)
MonthInputs ==
    { QueryString(NaN, ""), QueryString(0, ""), QueryString(2, ""),
      QueryString(3, ""), QueryString(13, ""), QueryString(NaN, "x"),
      QueryString(2, "x") }

(* !year: undefined and the empty string are falsy *)
Falsy(s) == s.digits = NaN /\ s.rest = ""

(* parseInt(s): the leading digits, whatever follows them *)
parseInt(s) == s.digits

isNaN(x) == x = NaN

(* new Date(year, ...): a year in 0..99 is taken as 1900 + year *)
JsFullYear(y) == IF y \in 0..99 THEN 1900 + y ELSE y

(* variant: February always has 28 days *)
NoLeapDay(yearNum, monthNum) ==
    IF monthNum = 2 THEN 28 ELSE DaysInMonth(JsFullYear(yearNum), monthNum)

(* new Date(yearNum, monthNum, 0).getDate() *)
JsLastDay(yearNum, monthNum) == DaysInMonth(JsFullYear(yearNum), monthNum)

(* startDate and endDate *)
CalendarWindow(yearNum, monthNum) ==
    [start |-> [y |-> yearNum, m |-> monthNum, d |-> 1],
     end   |-> [y |-> yearNum, m |-> monthNum,
                d |-> JsLastDay(yearNum, monthNum)]]

(* variant: the WHERE clause without its user_id condition *)
AnyUserMatch(c, h, w, u) ==
    /\ c.habit_id = h.id
    /\ DateNum(DateOf(c.completed_date)) >= DateNum(w.start)
    /\ DateNum(DateOf(c.completed_date)) <= DateNum(w.end)

(* ON c.habit_id = h.id WHERE c.completed_date >= $1
   AND c.completed_date <= $2 AND h.user_id = $3 *)
CalendarMatch(c, h, w, u) ==
    /\ c.habit_id = h.id
    /\ DateNum(DateOf(c.completed_date)) >= DateNum(w.start)
    /\ DateNum(DateOf(c.completed_date)) <= DateNum(w.end)
    /\ h.user_id = u

(* FROM completions c JOIN habits h, unordered, on the tables hs and cs *)
CalendarJoinOn(hs, cs, u, w) ==
    LET found == HeapOrder({ c \in cs :
                               \E h \in hs : CalendarMatch(c, h, w, u) })
        NameOf(c) == (CHOOSE h \in hs : h.id = c.habit_id).name
    IN  [i \in 1..Len(found) |->
           [completed_date |-> DateOf(found[i].completed_date),
            name |-> NameOf(found[i])]]

(* variant: ORDER BY c.completed_date only *)
CalendarByDateOnly(rows) ==
    SortByKey(rows, [i \in 1..Len(rows) |-> DateNum(rows[i].completed_date)])

(* ORDER BY c.completed_date, h.name *)
CalendarOrderBy(rows) ==
    LET byName == SortByKey(rows,
                    [i \in 1..Len(rows) |-> NameKey(rows[i].name)])
    IN  SortByKey(byName,
                  [i \in 1..Len(byName) |-> DateNum(byName[i].completed_date)])

(* the forEach loop: calendarData[dateStr].push(row.name) *)
RECURSIVE GroupByDate(_, _)
GroupByDate(rows, calendarData) ==
    IF rows = <<>> THEN calendarData
    ELSE LET row == Head(rows)
             dateStr == row.completed_date
             cd1 == IF dateStr \in DOMAIN calendarData THEN calendarData
                    ELSE calendarData @@ (dateStr :> <<>>)
         IN  GroupByDate(Tail(rows),
                         [cd1 EXCEPT ![dateStr] = Append(@, row.name)])

EmptyObject == [k \in {} |-> <<>>]

(* the handler on the tables hs and cs: [status, json] *)
CalendarOn(hs, cs, u, year, month) ==
    IF Falsy(year) \/ Falsy(month)
    THEN [status |-> 400, json |-> "Year and month are required"]
    ELSE LET yearNum == parseInt(year)
             monthNum == parseInt(month)
         IN  IF isNaN(yearNum) \/ isNaN(monthNum) \/ monthNum < 1
                \/ monthNum > 12
             THEN [status |-> 400, json |-> "Invalid year or month"]
             ELSE LET w == CalendarWindow(yearNum, monthNum) IN
                  IF ~(ValidDate(w.start) /\ ValidDate(w.end))
                  THEN [status |-> 500, json |-> "Database error"]
                  ELSE [status |-> 200,
                        json |-> GroupByDate(
                                   CalendarOrderBy(CalendarJoinOn(hs, cs, u, w)),
                                   EmptyObject)]

Calendar(u, year, month) == CalendarOn(habits, completions, u, year, month)

(* the response keeps the query it answers *)
GetCalendar(u, year, month) ==
    /\ UNCHANGED <<users, nextUserId>>
    /\ resp' = Response("calendar", u, 0, today,
                        Calendar(u, year, month).status,
                        [year |-> year, month |-> month,
                         json |-> Calendar(u, year, month).json])
    /\ UNCHANGED <<tz, today, habits, completions, nextHabitId,
                   nextCompletionId, inflight>>

----------------------------------------------------------------------------
(* GET /api/history/:id *)

(* FROM habits h LEFT JOIN completions c ON h.id = c.habit_id
   WHERE h.id = $1 AND h.user_id = $2 ORDER BY c.completed_date DESC *)
HistoryRowsOn(hs, cs, id, u) ==
    LET mine == HeapOrder({ h \in hs : h.id = id /\ h.user_id = u })
        RowsOf(h) ==
            LET done == HeapOrder({ c \in cs : c.habit_id = h.id })
            IN  IF done = <<>>
                THEN << [name |-> h.name, completed_date |-> NoDate] >>
                ELSE [i \in 1..Len(done) |->
                        [name |-> h.name,
                         completed_date |-> done[i].completed_date]]
        rows == Concat([i \in 1..Len(mine) |-> RowsOf(mine[i])])
    IN  SortByKey(rows,
                  [i \in 1..Len(rows) |-> DateDescKey(rows[i].completed_date)])

(* variant: every row counts as a completion *)
AnyRow(r) == TRUE

(* .filter(r => r.completed_date) *)
HasDate(r) == r.completed_date # NoDate

(* the completions are Date objects: the instants the driver read *)
HistoryOn(hs, cs, u, id) ==
    LET rows == HistoryRowsOn(hs, cs, id, u)
        dated == SelectSeq(rows, HasDate)
    IN  IF Len(rows) = 0
        THEN [status |-> 404, json |-> "Habit not found"]
        ELSE [status |-> 200,
              json |-> [name |-> rows[1].name,
                        completions |->
                            [i \in 1..Len(dated) |->
                               DateColumn(dated[i].completed_date)]]]

History(u, id) == HistoryOn(habits, completions, u, id)

GetHistory(u, id) ==
    /\ UNCHANGED <<users, nextUserId>>
    /\ resp' = Response("history", u, id, today, History(u, id).status,
                        History(u, id).json)
    /\ UNCHANGED <<tz, today, habits, completions, nextHabitId,
                   nextCompletionId, inflight>>

----------------------------------------------------------------------------
(* GET /export *)

(* variant: the query without its WHERE clause *)
ExportEveryone(h, u) == TRUE

(* WHERE h.user_id = $1 *)
ExportWhere(h, u) == h.user_id = u

(* FROM habits h LEFT JOIN completions c ON h.id = c.habit_id, unordered,
   on the tables hs and cs *)
ExportJoinOn(hs, cs, u) ==
    LET mine == HeapOrder({ h \in hs : ExportWhere(h, u) })
        Row(h, cd) == [name |-> h.name, created_at |-> h.created_at,
                       completed_date |-> cd]
        RowsOf(h) ==
            LET done == HeapOrder({ c \in cs : c.habit_id = h.id })
            IN  IF done = <<>> THEN << Row(h, NoDate) >>
                ELSE [i \in 1..Len(done) |-> Row(h, done[i].completed_date)]
    IN  Concat([i \in 1..Len(mine) |-> RowsOf(mine[i])])

(* variant: ORDER BY h.name, c.completed_date *)
ExportDateAscending(rows) ==
    LET byDate == SortByKey(rows,
                    [i \in 1..Len(rows) |-> rows[i].completed_date])
    IN  SortByKey(byDate, [i \in 1..Len(byDate) |-> NameKey(byDate[i].name)])

(* ORDER BY h.name, c.completed_date DESC *)
ExportOrderBy(rows) ==
    LET byDate == SortByKey(rows,
                    [i \in 1..Len(rows) |-> DateDescKey(rows[i].completed_date)])
    IN  SortByKey(byDate, [i \in 1..Len(byDate) |-> NameKey(byDate[i].name)])

(* one line per row: name, created_at, completed_date || ''; a date is
   written as its local calendar date and NoDate is the empty field *)
CsvLines(rows) ==
    [i \in 1..Len(rows) |->
       [name |-> rows[i].name, created_at |-> rows[i].created_at,
        completed_date |->
            IF rows[i].completed_date = NoDate THEN NoDate
            ELSE LocalDateOf(DateColumn(rows[i].completed_date))]]

ExportOn(hs, cs, u) == CsvLines(ExportOrderBy(ExportJoinOn(hs, cs, u)))

Export(u) == ExportOn(habits, completions, u)

GetExport(u) ==
    /\ UNCHANGED <<users, nextUserId>>
    /\ resp' = Response("export", u, 0, today, 200, Export(u))
    /\ UNCHANGED <<tz, today, habits, completions, nextHabitId,
                   nextCompletionId, inflight>>

----------------------------------------------------------------------------
(* GET /api/reminders *)

(* the server clock's time of day, as 'HH:MM' *)
ClockTimes == {"08:00", "10:00"}

(* the order of TIME values: minutes after midnight *)
TimeMinutes(t) ==
    CASE t = "08:00" -> 8 * 60
      [] t = "09:00" -> 9 * 60
      [] t = "10:00" -> 10 * 60

(* WHERE h.user_id = $2 AND h.reminder_time IS NOT NULL
   AND h.reminder_time <= $3::time AND c.id IS NULL *)
RemindersOn(hs, cs, u, d, currentTime) ==
    LET due == { h \in hs :
                   /\ h.user_id = u
                   /\ h.reminder_time # NULL
                   /\ TimeMinutes(h.reminder_time) <= TimeMinutes(currentTime)
                   /\ ~\E c \in cs : c.habit_id = h.id /\ c.completed_date = d }
        found == HeapOrder(due)
    IN  [i \in 1..Len(found) |->
           [id |-> found[i].id, name |-> found[i].name,
            reminder_time |-> found[i].reminder_time]]

Reminders(u, d, currentTime) ==
    RemindersOn(habits, completions, u, d, currentTime)

GetReminders(u, currentTime) ==
    /\ UNCHANGED <<users, nextUserId>>
    /\ resp' = Response("reminders", u, 0, getLocalDate, 200,
                        Reminders(u, getLocalDate, currentTime))
    /\ UNCHANGED <<tz, today, habits, completions, nextHabitId,
                   nextCompletionId, inflight>>

----------------------------------------------------------------------------
(* The server: empty tables, any server time zone *)

Requests ==
    { [op |-> o, user |-> u, id |-> i, today |-> d] :
        o \in {"checkin", "undo"}, u \in Users, i \in HabitIds,
        d \in 0..MaxDay }

Init ==
    /\ tz \in TZOffsets
    /\ today = 0
    /\ habits = {}
    /\ completions = {}
    /\ nextHabitId = 1
    /\ nextCompletionId = 1
    /\ inflight = EmptyBag
    /\ resp = NoResp
    /\ users = RegisteredUsers
    /\ nextUserId = NumUsers + 1

Next ==
    \/ \E u \in Users, n \in RawNames, r \in ReminderInputs : Add(u, n, r)
    \/ \E u \in Users, i \in HabitIds, n \in RawNames, r \in ReminderInputs :
          Edit(u, i, n, r)
    \/ \E u \in Users, i \in HabitIds : Delete(u, i)
    \/ \E u \in Users, i \in HabitIds : CheckinGuard(u, i)
    \/ \E r \in Requests : CheckinInsert(r)
    \/ \E u \in Users, i \in HabitIds : UndoGuard(u, i)
    \/ \E r \in Requests : UndoDelete(r)
    \/ \E u \in Users, k \in SortKeys : GetHome(u, k)
    \/ DayAdvance

Spec == Init /\ [][Next]_vars

----------------------------------------------------------------------------
(* The home page over stored data: the tables hold ViewHabits habits, three
   to a user, and up to ViewMaxRows completions; the first habit has a
   history within the nine days ending today, the others were completed
   yesterday or today at most *)

RECURSIVE SubsetsUpTo(_, _)
SubsetsUpTo(S, k) ==
    IF k = 0 THEN {{}}
    ELSE LET prev == SubsetsUpTo(S, k - 1)
         IN  prev \cup { T \cup {x} : T \in prev, x \in S }

ViewHabit(i) ==
    [id |-> i, user_id |-> (((i - 1) \div 3) % NumUsers) + 1,
     name |-> [lead |-> 0, ch |-> IF i % 2 = 1 THEN "b" ELSE "a", len |-> 1,
               trail |-> 0],
     reminder_time |-> IF i % 2 = 1 THEN "09:00" ELSE NULL,
     created_at |-> i]

ViewDays(i) == IF i = 1 THEN 0..ViewToday ELSE (ViewToday - 1)..ViewToday

ViewCells == { p \in (1..ViewHabits) \X (0..ViewToday) : p[2] \in ViewDays(p[1]) }

(* serial ids in the order the check-ins were made: by date, then habit *)
ViewRowId(p, S) ==
    1 + Cardinality({ q \in S : q[2] < p[2] \/ (q[2] = p[2] /\ q[1] < p[1]) })

InitView ==
    /\ tz \in TZOffsets
    /\ today = ViewToday
    /\ habits = { ViewHabit(i) : i \in 1..ViewHabits }
    /\ \E S \in SubsetsUpTo(ViewCells, ViewMaxRows) :
          /\ completions =
                { [id |-> ViewRowId(p, S), habit_id |-> p[1],
                   completed_date |-> p[2]] : p \in S }
          /\ nextCompletionId = Cardinality(S) + 1
    /\ nextHabitId = ViewHabits + 1
    /\ inflight = EmptyBag
    /\ resp = NoResp
    /\ users = RegisteredUsers
    /\ nextUserId = NumUsers + 1

NextView == \E u \in Users, k \in SortKeys : GetHome(u, k)

SpecView == InitView /\ [][NextView]_vars

----------------------------------------------------------------------------
(* The read endpoints over stored data: the habits of SpecView, each
   completed on 29 February 2024, on 1 March 2024 (today), on both or on
   neither, fewer than ViewMaxRows completions in all *)

QueryDays == (ViewToday - 1)..ViewToday

InitQuery ==
    /\ tz \in TZOffsets
    /\ today = ViewToday
    /\ habits = { ViewHabit(i) : i \in 1..ViewHabits }
    /\ \E S \in SubsetsUpTo((1..ViewHabits) \X QueryDays, ViewMaxRows - 1) :
          /\ completions =
                { [id |-> ViewRowId(p, S), habit_id |-> p[1],
                   completed_date |-> p[2]] : p \in S }
          /\ nextCompletionId = Cardinality(S) + 1
    /\ nextHabitId = ViewHabits + 1
    /\ inflight = EmptyBag
    /\ resp = NoResp
    /\ users = RegisteredUsers
    /\ nextUserId = NumUsers + 1

NextQuery ==
    \/ \E u \in Users, y \in YearInputs, m \in MonthInputs :
          GetCalendar(u, y, m)
    \/ \E u \in Users, i \in 1..ViewHabits : GetHistory(u, i)
    \/ \E u \in Users : GetExport(u)
    \/ \E u \in Users, t \in ClockTimes : GetReminders(u, t)
    \/ \E u \in Users, k \in SortKeys : GetHome(u, k)

SpecQuery == InitQuery /\ [][NextQuery]_vars

----------------------------------------------------------------------------
(* Two tenants: the first habit of each of two users is stored, each
   completed today or not, and the users send mutation requests; the server
   runs in UTC, the default of its container *)

SharedIds == {1, ViewHabits + 1}

(* "a" and the empty name *)
SharedNames ==
    { [lead |-> 0, ch |-> "a", len |-> 1, trail |-> 0],
      [lead |-> 0, ch |-> "a", len |-> 0, trail |-> 0] }

SharedRequests ==
    { [op |-> o, user |-> u, id |-> i, today |-> 0] :
        o \in {"checkin", "undo"}, u \in Users, i \in SharedIds }

InitShared ==
    /\ tz = 0
    /\ today = 0
    /\ habits = { ViewHabit(i) : i \in SharedIds }
    /\ \E S \in SUBSET (SharedIds \X {0}) :
          /\ completions =
                { [id |-> ViewRowId(p, S), habit_id |-> p[1],
                   completed_date |-> p[2]] : p \in S }
          /\ nextCompletionId = Cardinality(S) + 1
    /\ nextHabitId = ViewHabits + 2
    /\ inflight = EmptyBag
    /\ resp = NoResp
    /\ users = RegisteredUsers
    /\ nextUserId = NumUsers + 1

NextShared ==
    \/ \E u \in Users, n \in SharedNames : Add(u, n, "")
    \/ \E u \in Users, i \in SharedIds, n \in SharedNames : Edit(u, i, n, "")
    \/ \E u \in Users, i \in SharedIds : Delete(u, i)
    \/ \E u \in Users, i \in SharedIds : CheckinGuard(u, i)
    \/ \E r \in SharedRequests : CheckinInsert(r)
    \/ \E u \in Users, i \in SharedIds : UndoGuard(u, i)
    \/ \E r \in SharedRequests : UndoDelete(r)

SpecShared == InitShared /\ [][NextShared]_vars

----------------------------------------------------------------------------
(* Store failures: pool.query rejects, the statement has no effect and the
   handler's catch block answers *)

(* the handlers whose first statement after the session check is the query *)
FirstQueryOps ==
    {"home", "checkin", "delete", "undo", "history", "export", "reminders",
     "health", "login"}

(* variant: the catch block answers as if the query had succeeded *)
SwallowedFault(op) == 200

(* res.status(500) in every catch block; 503 in the health check *)
FaultStatus(op) == IF op = "health" THEN 503 ELSE 500

(* the message of each catch block, without err.message *)
FaultBody(op) ==
    CASE op = "home" -> "Database Error"
      [] op = "add" -> "Insert Error"
      [] op = "checkin" -> "Check-in Error"
      [] op = "delete" -> "Delete Error"
      [] op = "undo" -> "Undo Error"
      [] op = "edit" -> "Edit Error"
      [] op = "history" -> "error"
      [] op = "calendar" -> "Database error"
      [] op = "export" -> "Export Error"
      [] op = "reminders" -> "Database error"
      [] op = "health" -> "unhealthy"
      [] op = "login" -> "Internal Server Error"

Fault(op, u, id, d) == Response(op, u, id, d, FaultStatus(op), FaultBody(op))

(* the first query of a handler fails *)
QueryFault(op, u, id) ==
    /\ op \in FirstQueryOps
    /\ resp' = Fault(op, u, id, today)
    /\ UNCHANGED <<tz, today, habits, completions, nextHabitId,
                   nextCompletionId, inflight, users, nextUserId>>

(* POST /add passes the validation and its INSERT fails *)
AddFault(u, habitName) ==
    /\ ~NameMissing(habitName)
    /\ ~NameTooLong(habitName)
    /\ resp' = Fault("add", u, 0, today)
    /\ UNCHANGED <<tz, today, habits, completions, nextHabitId,
                   nextCompletionId, inflight, users, nextUserId>>

(* POST /edit/:id passes the validation and its UPDATE fails *)
EditFault(u, id, habitName) ==
    /\ ~NameMissing(habitName)
    /\ ~NameTooLong(habitName)
    /\ resp' = Fault("edit", u, id, today)
    /\ UNCHANGED <<tz, today, habits, completions, nextHabitId,
                   nextCompletionId, inflight, users, nextUserId>>

(* GET /api/calendar passes the validation and its SELECT fails *)
CalendarFault(u, year, month) ==
    /\ Calendar(u, year, month).status # 400
    /\ resp' = Fault("calendar", u, 0, today)
    /\ UNCHANGED <<tz, today, habits, completions, nextHabitId,
                   nextCompletionId, inflight, users, nextUserId>>

(* the INSERT of a check-in or the DELETE of an undo fails after the
   ownership query has succeeded *)
WriteFault(r) ==
    /\ BagIn(r, inflight)
    /\ r.op \in {"checkin", "undo"}
    /\ inflight' = inflight (-) SetToBag({r})
    /\ resp' = Fault(r.op, r.user, r.id, r.today)
    /\ UNCHANGED <<tz, today, habits, completions, nextHabitId,
                   nextCompletionId, users, nextUserId>>

NextFault ==
    \/ \E u \in Users, i \in SharedIds : Delete(u, i)
    \/ \E u \in Users, i \in SharedIds : CheckinGuard(u, i)
    \/ \E r \in SharedRequests : CheckinInsert(r)
    \/ \E u \in Users, i \in SharedIds : UndoGuard(u, i)
    \/ \E r \in SharedRequests : UndoDelete(r)
    \/ \E op \in FirstQueryOps, u \in Users, i \in SharedIds :
          QueryFault(op, u, i)
    \/ \E u \in Users, n \in SharedNames : AddFault(u, n)
    \/ \E u \in Users, i \in SharedIds, n \in SharedNames :
          EditFault(u, i, n)
    \/ \E u \in Users, y \in YearInputs, m \in MonthInputs :
          CalendarFault(u, y, m)
    \/ \E r \in SharedRequests : WriteFault(r)

SpecFault == InitShared /\ [][NextFault]_vars

----------------------------------------------------------------------------
(* Logins: the users table starts empty and login callbacks for the
   identifiers of GoogleIds interleave *)

GoogleIds == 1..NumUsers

LoginRequests ==
    { [op |-> "login", user |-> g, id |-> 0, today |-> 0] : g \in GoogleIds }

InitLogin ==
    /\ tz \in TZOffsets
    /\ today = 0
    /\ habits = {}
    /\ completions = {}
    /\ nextHabitId = 1
    /\ nextCompletionId = 1
    /\ inflight = EmptyBag
    /\ resp = NoResp
    /\ users = {}
    /\ nextUserId = 1

NextLogin ==
    \/ \E g \in GoogleIds : LoginSelect(g)
    \/ \E r \in LoginRequests : LoginInsert(r)

SpecLogin == InitLogin /\ [][NextLogin]_vars

----------------------------------------------------------------------------
(* Properties *)

HabitRow(id) == { h \in habits : h.id = id }
CompletionsOf(id) == { c \in completions : c.habit_id = id }
OwnedByOther(u, id) == \E h \in habits : h.id = id /\ h.user_id # u
IsOwner(u, id) == \E h \in habits : h.id = id /\ h.user_id = u
RequestOf(rs) == [op |-> rs.op, user |-> rs.user, id |-> rs.id,
                  today |-> rs.today]

MutationOps == {"edit", "delete", "checkin", "undo"}

(* C1: a step that answers an edit, delete, check-in or undo request made by
   a user on a habit that another user owns answers with a failure (400,
   403 or 500) and leaves the habit row and its completions as they were;
   and no such request ever gets past its ownership query. *)
C1_OwnershipGuard ==
    [][\A u \in Users, id \in HabitIds :
          OwnedByOther(u, id) =>
             /\ (resp'.op \in MutationOps /\ resp'.user = u /\ resp'.id = id)
                   => /\ resp'.status \in {400, 403, 500}
                      /\ HabitRow(id)' = HabitRow(id)
                      /\ CompletionsOf(id)' = CompletionsOf(id)
             /\ \A r \in BagToSet(inflight') : ~(r.user = u /\ r.id = id)]_vars

(* a request on another user's habit, which has a completion, was refused *)
C1_Witness ==
    /\ resp.op \in {"edit", "delete", "checkin", "undo"}
    /\ resp.status = 403
    /\ OwnedByOther(resp.user, resp.id)
    /\ CompletionsOf(resp.id) # {}

(* C2: in every reachable state no two completion rows have the same habit
   id and the same date. *)
C2_OneCompletionPerDay ==
    \A c1 \in completions, c2 \in completions :
        (c1.habit_id = c2.habit_id /\ c1.completed_date = c2.completed_date)
            => c1 = c2

(* a check-in just succeeded although the row for its habit and day was
   already there: the insert did nothing *)
C2_Witness ==
    /\ resp.op = "checkin"
    /\ resp.status = 302
    /\ \E c \in completions :
          /\ c.habit_id = resp.id
          /\ c.completed_date = resp.today
          /\ c.id # nextCompletionId - 1

(* C3: whenever an owner's check-in has answered and the habit exists, the
   answer is the redirect and there is exactly one completion row for the
   habit and the day, whatever other check-in steps ran in between. *)
C3_ConcurrentCheckin ==
    (resp.op = "checkin" /\ IsOwner(resp.user, resp.id)) =>
        /\ resp.status = 302
        /\ Cardinality(Conflicting(resp.id, resp.today)) = 1

(* one check-in has just inserted the row while a second check-in of the
   same habit and day had already passed its ownership query *)
C3_Witness ==
    /\ resp.op = "checkin"
    /\ resp.status = 302
    /\ BagIn(RequestOf(resp), inflight)
    /\ Cardinality(Conflicting(resp.id, resp.today)) = 1

(* C4: in every reachable state every completion row refers to a habit that
   exists. *)
C4_NoOrphans == \A c \in completions : HabitExists(c.habit_id)

(* a habit was just deleted, after check-ins on it, while another check-in
   on it is past its ownership query *)
C4_Witness ==
    /\ resp.op = "delete"
    /\ resp.status = 302
    /\ nextCompletionId > 1
    /\ \E r \in BagToSet(inflight) : r.op = "checkin" /\ r.id = resp.id

(* C5: right after an undo has answered, there is no completion for its
   habit and day, however many check-ins came before. *)
C5_UndoRemoves ==
    (resp.op = "undo" /\ resp.status = 302)
        => Conflicting(resp.id, resp.today) = {}

(* two check-in inserts were made for habit 1 on day 0, and then an
   undo answered *)
C5_Witness ==
    /\ resp.op = "undo"
    /\ resp.status = 302
    /\ resp.id = 1
    /\ today = 0
    /\ nextHabitId = 2
    /\ HabitExists(1)
    /\ nextCompletionId >= 3

(* the dates on which habit id has a completion *)
DatesOf(id) == { c.completed_date : c \in CompletionsOf(id) }

(* the largest k with completions on d, d-1, ..., d-(k-1) *)
RunLength(dates, d) ==
    CHOOSE k \in 0..Cardinality(dates) :
        /\ \A j \in 0..(k - 1) : (d - j) \in dates
        /\ (d - k) \notin dates

ViewHabitsOf(rs) == { rs.body.habits[i] : i \in 1..Len(rs.body.habits) }

(* C6: on every home page, each habit's streak is the largest k such that
   the habit has completions on today, today-1, ..., today-(k-1). *)
C6_StreakIsRun ==
    resp.op = "home" =>
        \A h \in ViewHabitsOf(resp) :
            h.streak = RunLength(DatesOf(h.id), resp.today)

(* C7: on every home page, a habit without a completion dated today has
   streak 0. *)
C7_NoTodayNoStreak ==
    resp.op = "home" =>
        \A h \in ViewHabitsOf(resp) :
            (resp.today \notin DatesOf(h.id)) => h.streak = 0

PermutationsOf(s) ==
    { [i \in 1..Len(s) |-> s[f[i]]] : f \in Permutations(1..Len(s)) }

StreaksIn(body) ==
    { <<body.habits[i].id, body.habits[i].streak>> :
        i \in 1..Len(body.habits) }

(* C8: the streaks on a home page are the same whatever the order in which
   the joined rows are read from the tables. *)
C8_OrderInvariant ==
    resp.op = "home" =>
        \A p \in PermutationsOf(HomeJoin(resp.user, resp.today)) :
            StreaksIn(HomeView(resp.user, resp.today, resp.body.sortBy,
                               HomeOrderBy(p)))
                = StreaksIn(resp.body)

(* a home page shows a streak of two or more: the rows were stored oldest
   first and counted newest first *)
C8_Witness ==
    /\ resp.op = "home"
    /\ \E h \in ViewHabitsOf(resp) : h.streak >= 2

(* C9: on every home page, each habit's streak is at least 0 and at most
   the number of the habit's completion dates. *)
C9_StreakBounds ==
    resp.op = "home" =>
        \A h \in ViewHabitsOf(resp) :
            h.streak >= 0 /\ h.streak <= Cardinality(DatesOf(h.id))

(* a home page shows a habit whose streak is all of its completions *)
C9_Witness ==
    /\ resp.op = "home"
    /\ \E h \in ViewHabitsOf(resp) :
          h.streak >= 1 /\ h.streak = Cardinality(DatesOf(h.id))

(* C10: on every home page, totalCompletionsThisWeek is the number of
   completions of the user's habits dated from today-6 through today. *)
C10_WeekWindow ==
    resp.op = "home" =>
        resp.body.stats.totalCompletionsThisWeek =
            Cardinality({ c \in completions :
                            /\ IsOwner(resp.user, c.habit_id)
                            /\ c.completed_date >= resp.today - (WeekDays - 1)
                            /\ c.completed_date <= resp.today })

(* the habits of user u and the completions of those habits *)
HabitsOf(u) == { h \in habits : h.user_id = u }

CompletionsBy(u) ==
    { c \in completions : \E h \in HabitsOf(u) : c.habit_id = h.id }

(* C11: the completion rate of a home page is an integer from 0 to 100; it
   is the percentage completedToday / totalHabits rounded to the nearest
   integer, a half rounded up, when the user has a habit, and it is 0, the
   page served without error, when the user has none *)
C11_CompletionRate ==
    resp.op = "home" =>
        LET st == resp.body.stats
            r == st.completionRate
            n == st.totalHabits
            c == st.completedToday
        IN  /\ resp.status = 200
            /\ r \in 0..100
            /\ n > 0 => /\ 2 * r * n <= 200 * c + n
                        /\ 2 * r * n > 200 * c - n
            /\ HabitsOf(resp.user) = {} => r = 0

(* two of three habits completed today: 66.67 is shown as 67 *)
C11_Witness ==
    /\ resp.op = "home"
    /\ resp.body.stats.totalHabits = 3
    /\ resp.body.stats.completedToday = 2
    /\ resp.body.stats.completionRate = 67

(* C12: on a home page totalHabits is the number of the user's habits,
   completedToday the number of those with a completion dated today, and
   totalAllTime the number of completions of the user's habits *)
C12_StatsCounts ==
    resp.op = "home" =>
        LET st == resp.body.stats
            mine == HabitsOf(resp.user)
        IN  /\ st.totalHabits = Cardinality(mine)
            /\ st.completedToday =
                  Cardinality({ h \in mine : Conflicting(h.id, resp.today) # {} })
            /\ st.totalAllTime = Cardinality(CompletionsBy(resp.user))

(* three habits, one completed today, and two completions on earlier days *)
C12_Witness ==
    /\ resp.op = "home"
    /\ resp.body.stats.totalHabits = 3
    /\ resp.body.stats.completedToday = 1
    /\ resp.body.stats.totalAllTime = 3

(* a parameter that is a decimal numeral and nothing else *)
Numeric(s) == s.digits # NaN /\ s.rest = ""

(* C13: a calendar query is rejected as a caller input error when the year
   or the month is missing, when the month is 0 or 13 (outside 1..12), and
   when the month or the year is not numeric; it is accepted for every
   numeric year with a month in 1..12 *)
C13_CalendarValidation ==
    resp.op = "calendar" =>
        LET year == resp.body.year
            month == resp.body.month
        IN  /\ (\/ Falsy(year) \/ Falsy(month)
                \/ ~Numeric(year) \/ ~Numeric(month)
                \/ month.digits \notin 1..12) => resp.status = 400
            /\ (Numeric(year) /\ Numeric(month) /\ month.digits \in 1..12)
                   => resp.status = 200

(* the dates, within the month a calendar response answers, on which its
   user completed a habit *)
MonthDatesOf(r) ==
    { DateOf(c.completed_date) :
        c \in { x \in CompletionsBy(r.user) :
                  /\ DateOf(x.completed_date).y = parseInt(r.body.year)
                  /\ DateOf(x.completed_date).m = parseInt(r.body.month) } }

(* C14: the window of an accepted calendar query runs from day 1 to the
   last day of the month: 29 for February 2024, 28 for February 2023 (and
   1900, a century year), 30 or 31 for the other months; the response has
   every date of the month with a completion of the user and no date
   outside the month *)
C14_MonthWindow ==
    /\ \A y \in {1900, 2000, 2023, 2024}, m \in 1..12 :
          LET w == CalendarWindow(y, m) IN
          /\ w.start = [y |-> y, m |-> m, d |-> 1]
          /\ w.end.y = y /\ w.end.m = m
          /\ w.end.d = IF m = 2 THEN (IF y \in {2000, 2024} THEN 29 ELSE 28)
                       ELSE IF m \in {4, 6, 9, 11} THEN 30 ELSE 31
    /\ (resp.op = "calendar" /\ resp.status \notin {400}) =>
          /\ resp.status = 200
          /\ DOMAIN resp.body.json = MonthDatesOf(resp)

(* February 2024 asked by a user with completions on 29 February and on
   1 March: the 29th is in the response, the 1st is not *)
C14_Witness ==
    /\ resp.op = "calendar" /\ resp.status = 200
    /\ parseInt(resp.body.year) = 2024 /\ parseInt(resp.body.month) = 2
    /\ DOMAIN resp.body.json = { [y |-> 2024, m |-> 2, d |-> 29] }
    /\ \E c \in CompletionsBy(resp.user) :
          DateOf(c.completed_date) = [y |-> 2024, m |-> 3, d |-> 1]

(* the completions of user u dated t whose habit is named n *)
NamedOn(u, t, n) ==
    { c \in CompletionsBy(u) :
        /\ DateOf(c.completed_date) = t
        /\ \E h \in HabitRow(c.habit_id) : h.name = n }

(* C15: a calendar response maps each date of the month on which the user
   completed a habit to the names of the user's habits completed on that
   date, one entry per habit, in ascending order of name; a date without a
   completion of the user is absent *)
C15_CalendarMapping ==
    (resp.op = "calendar" /\ resp.status = 200) =>
        LET data == resp.body.json IN
        /\ DOMAIN data = MonthDatesOf(resp)
        /\ \A t \in DOMAIN data :
              /\ \A n \in { h.name : h \in habits } :
                    Cardinality({ i \in 1..Len(data[t]) : data[t][i] = n })
                        = Cardinality(NamedOn(resp.user, t, n))
              /\ \A i \in 1..Len(data[t]) :
                    \E h \in HabitsOf(resp.user) : h.name = data[t][i]
              /\ \A i, j \in 1..Len(data[t]) :
                    i < j => NameKey(data[t][i]) <= NameKey(data[t][j])

(* a user completed the habits named "b" (the older) and "a" on the same
   date while another date of the window has no completion *)
C15_Witness ==
    /\ resp.op = "calendar" /\ resp.status = 200
    /\ \E t \in DOMAIN resp.body.json :
          /\ Len(resp.body.json[t]) = 2
          /\ resp.body.json[t][1].ch = "a"
          /\ resp.body.json[t][2].ch = "b"
    /\ Cardinality(DOMAIN resp.body.json) = 1

(* C16: every stored habit name is non-empty, has no blank at either end
   and has at most 100 characters; an add that is rejected creates no habit
   and an edit that is rejected leaves the habits as they were *)
C16_StoredNames ==
    [][ /\ \A h \in habits' :
              /\ h.name.len >= 1
              /\ h.name.lead = 0 /\ h.name.trail = 0
              /\ StrLen(h.name) <= MaxNameLength
        /\ (resp'.op \in {"add", "edit"} /\ resp'.status # 302) =>
               habits' = habits ]_vars

(* an edit is rejected for its name while a habit with a name of exactly
   100 characters is stored *)
C16_Witness ==
    /\ resp.op = "edit" /\ resp.status = 400
    /\ \E h \in habits : StrLen(h.name) = MaxNameLength

(* C17: an add or edit request whose reminder time is present but is not a
   time of day is rejected as a validation error (status 400) and changes no
   habit; it is not answered as a fault of the store *)
C17_ReminderValidation ==
    [][ \A u \in Users, n \in RawNames, r \in ReminderInputs :
          ( /\ r # "" /\ r \notin ValidTimes
            /\ \/ Add(u, n, r)
               \/ \E i \in HabitIds : Edit(u, i, n, r) )
          => (resp'.status = 400 /\ habits' = habits) ]_vars

(* the failure kind of a response: its status and its message *)
FailureKind(r) == <<r.status, r.body>>

ValidationKinds ==
    { <<400, "Habit name is required">>,
      <<400, "Habit name too long (max 100 characters)">> }

StoreFaultKinds ==
    { <<500, "Insert Error">>, <<500, "Edit Error">>,
      <<500, "Check-in Error">> }

(* what a mutation of a habit owned by another user is answered with *)
NotOwnerKind == <<403, "Unauthorized">>

(* C18: a mutation of a habit id that no habit has fails with a kind that
   differs from the kind reported for a habit owned by another user, and
   both differ from the kind of a validation failure *)
C18_DistinctFailureKinds ==
    (/\ resp.op \in MutationOps
     /\ resp.status # 302
     /\ FailureKind(resp) \notin ValidationKinds \cup StoreFaultKinds) =>
        /\ OwnedByOther(resp.user, resp.id) => FailureKind(resp) = NotOwnerKind
        /\ ~HabitExists(resp.id) => FailureKind(resp) # NotOwnerKind

(* the ids and the accepted calendar queries a reader may ask with *)
AnyHabitId == 1..(ViewHabits + 1)

AcceptedQueries ==
    { q \in YearInputs \X MonthInputs :
        CalendarOn({}, {}, 1, q[1], q[2]).status = 200 }

(* everything user b can read from the tables hs and cs: the home page under
   each sort key, the history of each habit id, the calendar for each
   accepted query, the export and the reminders at each time of day *)
ObservationOn(hs, cs, b) ==
    [home |-> [k \in SortKeys |->
                 HomeView(b, getLocalDate, k,
                          HomeOrderBy(HomeJoinOn(hs, cs, b, getLocalDate)))],
     history |-> [i \in AnyHabitId |-> HistoryOn(hs, cs, b, i)],
     calendar |-> [q \in AcceptedQueries |-> CalendarOn(hs, cs, b, q[1], q[2])],
     export |-> ExportOn(hs, cs, b),
     reminders |-> [t \in ClockTimes |->
                      RemindersOn(hs, cs, b, getLocalDate, t)]]

WriteOps == MutationOps \cup {"add"}

(* C19: a step that answers an add, edit, delete, check-in or undo request
   of one user leaves everything another user can read as it was: home list
   and statistics, history, calendar, export and reminders.  (A step that
   changes neither table changes no reading.) *)
C19_Isolation ==
    [][ \A b \in Users :
          (resp'.op \in WriteOps /\ resp'.user # b) =>
              \/ (habits' = habits /\ completions' = completions)
              \/ ObservationOn(habits', completions', b)
                    = ObservationOn(habits, completions, b) ]_vars

(* a user's habit is stored with a completion and a reminder, and the last
   request answered is another user's check-in, which added a completion *)
C19_Witness ==
    /\ resp.op = "checkin" /\ resp.status = 302
    /\ CompletionsOf(resp.id) # {}
    /\ \E h \in habits :
          /\ h.user_id # resp.user
          /\ h.reminder_time # NULL
          /\ CompletionsOf(h.id) # {}

(* the export line of habit h for the completion date d, or for no
   completion (NoDate, the empty field) *)
ExportTuple(h, d) ==
    [name |-> h.name, created_at |-> h.created_at, completed_date |-> d]

(* C20: an export has exactly one line (name, creation time, completion
   date) for each completion of each habit of the user and exactly one line
   with an empty completion date for each habit of the user without a
   completion; the lines are in ascending order of name and, within one
   habit, in descending order of completion date *)
C20_ExportOrder ==
    resp.op = "export" =>
        LET rows == resp.body
            mine == HabitsOf(resp.user)
            Lines(t) == { i \in 1..Len(rows) : rows[i] = t }
        IN  /\ resp.status = 200
            /\ \A h \in mine :
                  /\ \A c \in CompletionsOf(h.id) :
                        Cardinality(Lines(ExportTuple(h, c.completed_date))) = 1
                  /\ CompletionsOf(h.id) = {} =>
                        Cardinality(Lines(ExportTuple(h, NoDate))) = 1
            /\ Len(rows) = Cardinality(CompletionsBy(resp.user))
                  + Cardinality({ h \in mine : CompletionsOf(h.id) = {} })
            /\ \A i, j \in 1..Len(rows) :
                  i < j =>
                    /\ NameKey(rows[i].name) <= NameKey(rows[j].name)
                    /\ (/\ rows[i].name = rows[j].name
                        /\ rows[i].created_at = rows[j].created_at) =>
                           rows[i].completed_date > rows[j].completed_date

(* a habit named "a" without a completion comes first, with an empty date;
   a habit named "b" has two lines, the later date first *)
C20_Witness ==
    /\ resp.op = "export"
    /\ Len(resp.body) >= 3
    /\ resp.body[1].name.ch = "a"
    /\ resp.body[1].completed_date = NoDate
    /\ \E i \in 1..(Len(resp.body) - 1) :
          /\ resp.body[i].created_at = resp.body[i + 1].created_at
          /\ resp.body[i].completed_date = today
          /\ resp.body[i + 1].completed_date = today - 1

(* C21: a habit without completions is not an error: the home page lists
   it once, with streak 0, checkedInToday false and totalCompletions 0, and
   counts it in totalHabits; the history of the habit, asked by its owner,
   is its name with an empty list of completions *)
C21_ZeroCompletions ==
    /\ resp.op = "home" =>
          /\ resp.status = 200
          /\ resp.body.stats.totalHabits = Cardinality(HabitsOf(resp.user))
          /\ \A h \in HabitsOf(resp.user) :
                CompletionsOf(h.id) = {} =>
                   \E i \in 1..Len(resp.body.habits) :
                      /\ resp.body.habits[i].id = h.id
                      /\ resp.body.habits[i].name = h.name
                      /\ resp.body.habits[i].streak = 0
                      /\ resp.body.habits[i].checkedInToday = FALSE
                      /\ resp.body.habits[i].totalCompletions = 0
                      /\ \A j \in 1..Len(resp.body.habits) :
                            resp.body.habits[j].id = h.id => j = i
    /\ (/\ resp.op = "history"
        /\ IsOwner(resp.user, resp.id)
        /\ CompletionsOf(resp.id) = {}) =>
          /\ resp.status = 200
          /\ \A h \in HabitRow(resp.id) :
                resp.body = [name |-> h.name, completions |-> <<>>]

(* the owner asks for the history of a habit without completions while
   another of the owner's habits has some *)
C21_Witness ==
    /\ resp.op = "history" /\ resp.status = 200
    /\ resp.body.completions = <<>>
    /\ CompletionsBy(resp.user) # {}

(* the completions in cs other than the one of habit id dated d *)
OtherCompletions(cs, id, d) ==
    { c \in cs : ~(c.habit_id = id /\ c.completed_date = d) }

(* C25: a step that answers a check-in or an undo on habit H with success
   changes at most the completion of H dated the request's today: the habit
   rows, the completions of H on other dates and the completions of the
   other habits are as they were *)
C25_Frame ==
    [][ (resp'.op \in {"checkin", "undo"} /\ resp'.status = 302) =>
          /\ habits' = habits
          /\ OtherCompletions(completions', resp'.id, resp'.today)
                = OtherCompletions(completions, resp'.id, resp'.today) ]_vars

(* an undo has removed today's completion of a habit that keeps the
   completion of the day before *)
C25_Witness ==
    /\ resp.op = "undo" /\ resp.status = 302
    /\ Conflicting(resp.id, resp.today) = {}
    /\ Conflicting(resp.id, resp.today - 1) # {}
    /\ nextCompletionId = MaxCompletionId + 1

(* C26: an add or edit request is refused for its name (status 400) exactly
   when the trimmed name has no character or more than 100 characters,
   whatever the length of the raw input *)
C26_TrimmedLength ==
    [][ \A u \in Users, n \in RawNames, r \in ReminderInputs :
          ( \/ Add(u, n, r)
            \/ \E i \in HabitIds : Edit(u, i, n, r) )
          => ( resp'.status # 400
                 <=> StrLen(Trim(n)) \in 1..MaxNameLength ) ]_vars

(* C27: on every home page, a habit is shown as checked in today exactly
   when its streak is at least 1 *)
C27_CheckedIffStreak ==
    resp.op = "home" =>
        \A h \in ViewHabitsOf(resp) :
            h.checkedInToday <=> h.streak >= 1

(* C23: over a run in which the days advance, every home page shows a habit
   that was never checked in with streak 0 and not completed today, a habit
   checked in on the day of the view with streak at least 1 and completed
   today, a habit not checked in on the day of the view with streak 0, and
   a habit checked in on the k consecutive days ending on the day of the
   view with streak k *)
C23_StreakOverDays ==
    resp.op = "home" =>
        \A h \in ViewHabitsOf(resp) :
            LET dates == DatesOf(h.id) IN
            /\ dates = {} => (h.streak = 0 /\ ~h.checkedInToday)
            /\ resp.today \in dates => (h.streak >= 1 /\ h.checkedInToday)
            /\ resp.today \notin dates => (h.streak = 0 /\ ~h.checkedInToday)
            /\ \A k \in 1..(MaxDay + 1) :
                  ( /\ \A j \in 0..(k - 1) : (resp.today - j) \in dates
                    /\ (resp.today - k) \notin dates )
                  => h.streak = k

(* C24: no step deletes a user record; no identifier ever has two records;
   and every step that completes a login callback completes it with the
   one user record of its identifier *)
C24_OneUserPerIdentifier ==
    [][ /\ users \subseteq users'
        /\ \A g \in GoogleIds : Cardinality(UsersByGoogleId(g)') <= 1
        /\ resp'.op = "login" =>
              /\ resp'.status = 302
              /\ \E u \in users' :
                    u.google_id = resp'.user /\ u.id = resp'.id ]_vars

(* a step in which a query of some handler fails, found from the request
   that the step answers *)
FaultStep ==
    /\ resp'.user \in Users
    /\ \/ /\ resp'.op \in FirstQueryOps
          /\ resp'.id \in SharedIds
          /\ QueryFault(resp'.op, resp'.user, resp'.id)
       \/ /\ resp'.op = "add"
          /\ \E n \in SharedNames : AddFault(resp'.user, n)
       \/ /\ resp'.op = "edit"
          /\ resp'.id \in SharedIds
          /\ \E n \in SharedNames : EditFault(resp'.user, resp'.id, n)
       \/ /\ resp'.op = "calendar"
          /\ \E y \in YearInputs, m \in MonthInputs :
                CalendarFault(resp'.user, y, m)
       \/ /\ RequestOf(resp') \in SharedRequests
          /\ WriteFault(RequestOf(resp'))

(* C22: a step in which the store fails a handler's query is answered with
   a server fault (status 500 or more: not a success, not 400, 403 or 404),
   leaves the habits and the completions as they were, executes no further
   statement (the sequences stand) and puts no request back in flight: a
   request whose second statement failed is no longer pending *)
C22_StoreFault ==
    [][ FaultStep =>
          /\ resp'.status >= 500
          /\ habits' = habits
          /\ completions' = completions
          /\ nextHabitId' = nextHabitId
          /\ nextCompletionId' = nextCompletionId
          /\ BagCardinality(inflight') <= BagCardinality(inflight)
          /\ \A r \in SharedRequests :
                WriteFault(r) =>
                   CopiesIn(r, inflight') = CopiesIn(r, inflight) - 1 ]_vars

(* the DELETE of an undo has failed: the undo is answered with a fault, the
   completion it was to remove is still stored and nothing is in flight *)
C22_Witness ==
    /\ resp.op = "undo" /\ resp.status = 500
    /\ Conflicting(resp.id, resp.today) # {}
    /\ IsOwner(resp.user, resp.id)
    /\ inflight = EmptyBag

====
